---- MODULE Spec2Model ----
\* Telemetry aggregation of fc_telemetry_receptor.py and onboard/main.py:
\* FcTelemetryCollector (six channel ingestors writing one shared
\* FcTelemetryData under an asyncio.Lock), FcTelemetryLogger (the periodic
\* recorder) and print_telemetry_data (the periodic printer).
\*
\* Granularity.  Every statement of a task is one step, and the steps of
\* different tasks interleave freely; exclusion on the snapshot comes from
\* data_lock alone, never from the scheduler.  The plain (non-async) methods
\* stop() and stop_logging() are called from code that runs on the same event
\* loop, so they take effect only while every task is parked at an await
\* (LoopIdle).
EXTENDS Integers, Sequences, FiniteSets, TLC

\* ------------------------------------------------------------------ bounds
MaxVal == 2
MaxRecords == 2
MaxTime == 1
MaxRuns == 2
MaxTicks == 2
MaxMutations == 1

\* ------------------------------------------------------- FcTelemetryData
\* dataclasses.fields(FcTelemetryData), in declaration order.
FieldNames ==
    << "timestamp_ms",
       "latitude_deg", "longitude_deg", "altitude_m_amsl", "altitude_m_rel",
       "velocity_north_mps", "velocity_east_mps", "velocity_down_mps",
       "roll_deg", "pitch_deg", "yaw_deg",
       "q_w", "q_x", "q_y", "q_z",
       "accel_body_x_m_per_s2", "accel_body_y_m_per_s2", "accel_body_z_m_per_s2",
       "angular_vel_body_x_rad_ps", "angular_vel_body_y_rad_ps",
       "angular_vel_body_z_rad_ps",
       "motor_out", "servo1_out", "servo2_out", "servo3_out" >>

Fields == { FieldNames[i] : i \in 1..Len(FieldNames) }

\* The dataclass defaults; timestamp_ms has none and is given at construction.
FieldDefault(f) == IF f = "q_w" THEN 1 ELSE 0

NewTelemetryData(ts) ==
    [ f \in Fields |-> IF f = "timestamp_ms" THEN ts ELSE FieldDefault(f) ]

\* -------------------------------------------------------------------- csv
\* Text is a sequence of characters; a field name, which holds no comma, is
\* kept as one element.
\* _get_field_formats(): the format spec of each field.
field_formats ==
    [ f \in Fields |->
        CASE f \in { "latitude_deg", "longitude_deg" } -> ".8f"
          [] f \in { "altitude_m_amsl", "altitude_m_rel", "roll_deg", "pitch_deg",
                     "yaw_deg" } -> ".2f"
          [] f \in { "timestamp_ms", "velocity_north_mps", "velocity_east_mps",
                     "velocity_down_mps", "accel_body_x_m_per_s2",
                     "accel_body_y_m_per_s2", "accel_body_z_m_per_s2" } -> ".3f"
          [] f \in { "q_w", "q_x", "q_y", "q_z", "angular_vel_body_x_rad_ps",
                     "angular_vel_body_y_rad_ps", "angular_vel_body_z_rad_ps" } -> ".4f"
          [] f \in { "motor_out", "servo1_out", "servo2_out", "servo3_out" } -> "d" ]

\* The digits after the point that a fixed-point spec asks for.
Precision(format_spec) ==
    CASE format_spec = ".2f" -> 2
      [] format_spec = ".3f" -> 3
      [] format_spec = ".4f" -> 4
      [] format_spec = ".8f" -> 8

DigitChars == << "0", "1", "2", "3", "4", "5", "6", "7", "8", "9" >>

\* The decimal digits of a natural number.
RECURSIVE Digits(_)
Digits(n) ==
    IF n < 10 THEN << DigitChars[n + 1] >>
    ELSE Digits(n \div 10) \o << DigitChars[(n % 10) + 1] >>

\* f"{value:d}"
FormatInt(value) ==
    IF value < 0 THEN << "-" >> \o Digits(-value) ELSE Digits(value)

\* f"{value:,.Nf}": the same with a thousands separator.
FormatFixed_Grouped(value, n) ==
    ( IF value >= 1000
      THEN Digits(value \div 1000) \o << "," >>
           \o << DigitChars[((value \div 100) % 10) + 1],
                 DigitChars[((value \div 10) % 10) + 1],
                 DigitChars[(value % 10) + 1] >>
      ELSE FormatInt(value) )
    \o << "." >> \o [ i \in 1..n |-> "0" ]

\* f"{value:.Nf}" of a float with an integral value.
FormatFixed(value, n) == FormatInt(value) \o << "." >> \o [ i \in 1..n |-> "0" ]

\* str(value) of a float with an integral value.
Str(value) == FormatInt(value) \o << ".", "0" >>

\* One element of `values` in to_csv_row.
FormatField(f, value) ==
    IF f \in DOMAIN field_formats /\ field_formats[f] # ""
    THEN IF field_formats[f] = "d"
         THEN FormatInt(value)
         ELSE FormatFixed(value, Precision(field_formats[f]))
    ELSE Str(value)

\* ",".join(parts)
RECURSIVE Join(_)
Join(parts) ==
    IF Len(parts) = 0 THEN << >>
    ELSE IF Len(parts) = 1 THEN parts[1]
    ELSE parts[1] \o << "," >> \o Join(Tail(parts))

\* FcTelemetryData.to_csv_row
to_csv_row(d) ==
    Join([ i \in 1..Len(FieldNames) |-> FormatField(FieldNames[i], d[FieldNames[i]]) ])

\* A header of the fields that have a default: timestamp_ms is left out.
csv_header_DataOnly == Join([ i \in 1..(Len(FieldNames) - 1) |-> << FieldNames[i + 1] >> ])

\* FcTelemetryData.csv_header
csv_header == Join([ i \in 1..Len(FieldNames) |-> << FieldNames[i] >> ])

\* --------------------------------------------------------------- channels
Channels == { "position", "velocity", "euler", "quaternion", "imu", "actuator" }

\* The assignments of each _*_stream body, in statement order:
\* << field of _current_data, attribute of the record >>.
PositionAssign ==
    << <<"latitude_deg", "latitude_deg">>,
       <<"longitude_deg", "longitude_deg">>,
       <<"altitude_m_amsl", "absolute_altitude_m">>,
       <<"altitude_m_rel", "relative_altitude_m">> >>

\* _velocity_stream with its last target pasted from _attitude_euler_stream.
VelocityAssign_Pasted ==
    << <<"velocity_north_mps", "north_m_s">>,
       <<"velocity_east_mps", "east_m_s">>,
       <<"roll_deg", "down_m_s">> >>

VelocityAssign ==
    << <<"velocity_north_mps", "north_m_s">>,
       <<"velocity_east_mps", "east_m_s">>,
       <<"velocity_down_mps", "down_m_s">> >>

EulerAssign ==
    << <<"roll_deg", "roll_deg">>,
       <<"pitch_deg", "pitch_deg">>,
       <<"yaw_deg", "yaw_deg">> >>

QuaternionAssign ==
    << <<"q_w", "w">>, <<"q_x", "x">>, <<"q_y", "y">>, <<"q_z", "z">> >>

ImuAssign ==
    << <<"accel_body_x_m_per_s2", "acceleration_frd.forward_m_s2">>,
       <<"accel_body_y_m_per_s2", "acceleration_frd.right_m_s2">>,
       <<"accel_body_z_m_per_s2", "acceleration_frd.down_m_s2">>,
       <<"angular_vel_body_x_rad_ps", "angular_velocity_frd.forward_rad_s">>,
       <<"angular_vel_body_y_rad_ps", "angular_velocity_frd.right_rad_s">>,
       <<"angular_vel_body_z_rad_ps", "angular_velocity_frd.down_rad_s">> >>

\* servo_start_idx of _actuator_output_stream.
servo_start_idx == 8

\* << field, index into output.actuator >> (0-based, as in the source).
ActuatorAssign ==
    << <<"motor_out", 0>>,
       <<"servo1_out", servo_start_idx>>,
       <<"servo2_out", servo_start_idx + 1>>,
       <<"servo3_out", servo_start_idx + 2>> >>

Assign(g) ==
    CASE g = "position"   -> PositionAssign
      [] g = "velocity"   -> VelocityAssign
      [] g = "euler"      -> EulerAssign
      [] g = "quaternion" -> QuaternionAssign
      [] g = "imu"        -> ImuAssign
      [] g = "actuator"   -> ActuatorAssign

NAssign(g) == Len(Assign(g))

GroupFields(g) == { Assign(g)[k][1] : k \in 1..NAssign(g) }

\* ---------------------------------------------------------------- records
\* A record of a scalar channel: its attributes, all floats.  The k-th
\* attribute of the v-th record is 10*v + k, so two records differ on every
\* attribute and the attributes of one record differ from one another.
ScalarRecord(g, v) ==
    [ a \in { Assign(g)[k][2] : k \in 1..NAssign(g) } |->
        LET k == CHOOSE j \in 1..NAssign(g) : Assign(g)[j][2] = a
        IN  10 * v + k ]

\* An element of output.actuator: a float, kept in tenths, or NaN.
Num(t) == [ nan |-> FALSE, tenths |-> t ]
NaN == [ nan |-> TRUE, tenths |-> 0 ]

\* An actuator record: output.actuator has n elements; element i (0-based) is
\* v + i + 0.5, except that element nanAt (if < n) is NaN.
ActuatorRecord(n, v, nanAt) ==
    [ actuator |->
        [ i \in 1..n |-> IF i - 1 = nanAt THEN NaN
                         ELSE Num(100 * v + 10 * (i - 1) + 5) ] ]

\* Lengths of output.actuator that fall on each side of every index test.
ActuatorLens == { 0, 1, servo_start_idx + 1, servo_start_idx + 3 }

\* No index: the record holds no NaN.
NoIndex == servo_start_idx + 3

Records(g) ==
    IF g = "actuator"
    THEN { ActuatorRecord(n, v, NoIndex) : n \in ActuatorLens, v \in 1..MaxVal }
         \cup { ActuatorRecord(servo_start_idx + 3, v, b) :
                  v \in 1..MaxVal, b \in { 0, servo_start_idx + 1 } }
    ELSE { ScalarRecord(g, v) : v \in 1..MaxVal }

NoRecord == [ none |-> TRUE ]

\* int(x) of a float: truncation toward zero; int(nan) raises ValueError.
IntOf(e) ==
    IF e.tenths >= 0 THEN e.tenths \div 10 ELSE -((-e.tenths) \div 10)

\* The assignments without their length tests: an index past the end of
\* output.actuator raises IndexError.
AssignRaises_Unguarded(g, k, rec) ==
    /\ g = "actuator"
    /\ \/ Len(rec.actuator) <= Assign(g)[k][2]
       \/ rec.actuator[Assign(g)[k][2] + 1].nan

\* Whether the k-th assignment of channel g raises on record rec.
AssignRaises(g, k, rec) ==
    /\ g = "actuator"
    /\ Len(rec.actuator) > Assign(g)[k][2]
    /\ rec.actuator[Assign(g)[k][2] + 1].nan

\* The value the k-th assignment of channel g stores (when it does not raise).
AssignValue(g, k, rec) ==
    IF g = "actuator"
    THEN IF Len(rec.actuator) > Assign(g)[k][2]
         THEN IntOf(rec.actuator[Assign(g)[k][2] + 1])
         ELSE 0
    ELSE rec[Assign(g)[k][2]]

\* ------------------------------------------------------------------ state
VARIABLES
    heap,          \* the FcTelemetryData objects alive, by reference
    data_lock,     \* FcTelemetryCollector._data_lock: "free" or its holder
    running,       \* FcTelemetryCollector._running
    stop_called,   \* stop() has been called (history)
    cpc,           \* position of start_telemetry_streams
    ipc,           \* position of each _*_stream
    irec,          \* the record each _*_stream is processing
    iidx,          \* the next assignment of each _*_stream's critical section
    delivered,     \* records delivered to a running stream so far
    last,          \* the last record each running _*_stream received (history)
    opc,           \* position of each _*_stream of the call before a restart
    orec,          \* the record each such stream is processing
    oidx,          \* the next assignment of each such stream's critical section
    log_running,   \* FcTelemetryLogger._running
    stop_logging_called,  \* stop_logging() has been called (history)
    file_handle,   \* FcTelemetryLogger._file_handle: 0 is None, else a handle
    files,         \* every handle open() returned: open?, close() calls, the call that opened it
    sink,          \* the lines of the file at _filename
    rpc,           \* position of start_logging
    rec_data,      \* start_logging's local `data` (a reference)
    runs,          \* start_logging calls so far
    ticks,         \* loop iterations of the current start_logging call
    rowfaults,     \* iterations of the current call that raised
    ppc,           \* position of print_telemetry_data
    print_data,    \* print_telemetry_data's local `data` (a reference)
    proc,          \* asyncio.run(_async_main()): "running" or "crashed"
    now,           \* time.time(), in seconds
    mutations      \* writes made to returned copies so far

vars ==
    << heap, data_lock, running, stop_called, cpc, ipc, irec, iidx, delivered, last,
       opc, orec, oidx, log_running, stop_logging_called, file_handle, files, sink, rpc, rec_data, runs,
       ticks, rowfaults, ppc, print_data, proc, now, mutations >>

\* The streams of an earlier start_telemetry_streams call that is still in its
\* gather().
prevVars == << opc, orec, oidx >>

collectorVars ==
    << running, stop_called, cpc, ipc, irec, iidx, delivered, last, prevVars >>
recorderVars ==
    << log_running, stop_logging_called, file_handle, files, sink, rpc, rec_data, runs, ticks, rowfaults >>
printerVars == << ppc, print_data >>

\* References.
Canon == "current_data"
NoRef == "none"
RecCopy == "recorder_copy"
PrintCopy == "printer_copy"

\* time.time() when FcTelemetryCollector is constructed.
ConstructionTime == 1

Init ==
    /\ heap = [ o \in {Canon} |-> NewTelemetryData(ConstructionTime) ]
    /\ data_lock = "free"
    /\ running = FALSE
    /\ stop_called = FALSE
    /\ cpc = "init"
    /\ ipc = [ g \in Channels |-> "idle" ]
    /\ irec = [ g \in Channels |-> NoRecord ]
    /\ iidx = [ g \in Channels |-> 0 ]
    /\ delivered = 0
    /\ last = [ g \in Channels |-> NoRecord ]
    /\ opc = [ g \in Channels |-> "none" ]
    /\ orec = [ g \in Channels |-> NoRecord ]
    /\ oidx = [ g \in Channels |-> 0 ]
    /\ log_running = FALSE
    /\ stop_logging_called = FALSE
    /\ file_handle = 0
    /\ files = << >>
    /\ sink = << >>
    /\ rpc = "init"
    /\ rec_data = NoRef
    /\ runs = 0
    /\ ticks = 0
    /\ rowfaults = 0
    /\ ppc = "init"
    /\ print_data = NoRef
    /\ proc = "running"
    /\ now = ConstructionTime
    /\ mutations = 0

\* ------------------------------------------------------------- scheduling
IngestorParked(g) ==
    ipc[g] \in { "idle", "wait", "stopped", "ended", "errored", "cancelled" }

RecorderParked == rpc \in { "init", "sleep", "esleep", "done" }

PrinterParked == ppc \in { "init", "sleep", "cancelled" }

\* A stream of the earlier call is at its `async for`, or over, or there is none.
PrevParked(g) == opc[g] \in { "none", "wait", "stopped", "errored", "cancelled" }

\* Every task is at an await (or has not started, or is over).
LoopIdle ==
    /\ \A g \in Channels : IngestorParked(g)
    /\ \A g \in Channels : PrevParked(g)
    /\ RecorderParked
    /\ PrinterParked

\* ---------------------------------------------------- FcTelemetryCollector
\* start_telemetry_streams, up to its first await.
StartTelemetryStreams ==
    /\ proc = "running"
    /\ cpc = "init"
    /\ running' = TRUE
    /\ cpc' = "config"
    /\ UNCHANGED << heap, data_lock, stop_called, ipc, irec, iidx, delivered, last,
                    prevVars, recorderVars, printerVars, proc, now, mutations >>

\* await self.configure_stream_rates(...): returns, or re-raises.
ConfigureStreamRates(ok) ==
    /\ proc = "running"
    /\ cpc = "config"
    /\ cpc' = IF ok THEN "delay" ELSE "raised"
    /\ UNCHANGED << heap, data_lock, running, stop_called, ipc, irec, iidx,
                    delivered, last, prevVars, recorderVars, printerVars, proc, now,
                    mutations >>

\* await asyncio.sleep(0.5) is over; gather() starts the six streams, each of
\* which runs to its `async for`.
GatherStreams ==
    /\ proc = "running"
    /\ cpc = "delay"
    /\ cpc' = "gather"
    /\ ipc' = [ g \in Channels |-> "wait" ]
    /\ UNCHANGED << heap, data_lock, running, stop_called, irec, iidx, delivered, last,
                    prevVars, recorderVars, printerVars, proc, now, mutations >>

\* stop()
Stop ==
    /\ proc = "running"
    /\ LoopIdle
    /\ running' = FALSE
    /\ stop_called' = TRUE
    /\ UNCHANGED << heap, data_lock, cpc, ipc, irec, iidx, delivered, last,
                    prevVars, recorderVars, printerVars, proc, now, mutations >>

\* A loop without the test of the flag.
StreamBreaks_Never == FALSE

\* `if not self._running: break`
StreamBreaks == ~running

\* The source of channel g yields rec: the loop breaks, or goes on to
\* `async with self._data_lock`.
Deliver(g, rec) ==
    /\ proc = "running"
    /\ ipc[g] = "wait"
    /\ IF StreamBreaks
       THEN /\ ipc' = [ ipc EXCEPT ![g] = "stopped" ]
            /\ irec' = irec
            /\ delivered' = delivered
            /\ last' = last
       ELSE /\ delivered < MaxRecords
            /\ delivered' = delivered + 1
            /\ last' = [ last EXCEPT ![g] = rec ]
            /\ ipc' = [ ipc EXCEPT ![g] = "acq" ]
            /\ irec' = [ irec EXCEPT ![g] = rec ]
    /\ UNCHANGED << heap, data_lock, running, stop_called, cpc, iidx,
                    prevVars, recorderVars, printerVars, proc, now, mutations >>

\* A stream with no handler: the error leaves the coroutine, and gather() hands
\* it to start_telemetry_streams, which raises it.
OnStreamError_Propagates(g) ==
    /\ ipc' = [ ipc EXCEPT ![g] = "errored" ]
    /\ cpc' = "raised"

\* `except Exception: logging.exception(...)` of a stream: the coroutine returns.
OnStreamError(g) ==
    /\ ipc' = [ ipc EXCEPT ![g] = "errored" ]
    /\ cpc' = cpc

\* The source of channel g raises.
SourceRaises(g) ==
    /\ proc = "running"
    /\ ipc[g] = "wait"
    /\ OnStreamError(g)
    /\ UNCHANGED << heap, data_lock, running, stop_called, irec, iidx, delivered, last,
                    prevVars, recorderVars, printerVars, proc, now, mutations >>

\* The source of channel g ends (StopAsyncIteration): the loop is over.
SourceEnds(g) ==
    /\ proc = "running"
    /\ ipc[g] = "wait"
    /\ ipc' = [ ipc EXCEPT ![g] = "ended" ]
    /\ UNCHANGED << heap, data_lock, running, stop_called, cpc, irec, iidx,
                    delivered, last, prevVars, recorderVars, printerVars, proc, now, mutations >>

\* `async with self._data_lock:` of a stream: blocks while the lock is held.
StreamMayEnter(g) == data_lock = "free"

Acquire(g) ==
    /\ ipc[g] = "acq"
    /\ StreamMayEnter(g)
    /\ data_lock' = g
    /\ ipc' = [ ipc EXCEPT ![g] = "write" ]
    /\ iidx' = [ iidx EXCEPT ![g] = 1 ]
    /\ UNCHANGED << heap, running, stop_called, cpc, irec, delivered, last,
                    prevVars, recorderVars, printerVars, proc, now, mutations >>

\* A stream that rebuilds the snapshot around the field it writes: a new
\* FcTelemetryData with that one field set takes the place of _current_data.
SetField_Rebuilds(h, g, k, rec) ==
    [ h EXCEPT ![Canon] =
        [ NewTelemetryData(h[Canon]["timestamp_ms"])
            EXCEPT ![Assign(g)[k][1]] = AssignValue(g, k, rec) ] ]

\* self._current_data.<field> = <value>: the k-th assignment of stream g.
SetField(h, g, k, rec) ==
    [ h EXCEPT ![Canon][Assign(g)[k][1]] = AssignValue(g, k, rec) ]

\* The critical section between acquire() and release() calls, with no
\* try/finally: an assignment that raises leaves the lock held.
WriteField_NoFinally(g) ==
    /\ ipc[g] = "write"
    /\ iidx[g] <= NAssign(g)
    /\ IF AssignRaises(g, iidx[g], irec[g])
       THEN /\ data_lock' = data_lock
            /\ OnStreamError(g)
            /\ irec' = [ irec EXCEPT ![g] = NoRecord ]
            /\ iidx' = [ iidx EXCEPT ![g] = 0 ]
            /\ heap' = heap
       ELSE /\ heap' = SetField(heap, g, iidx[g], irec[g])
            /\ iidx' = [ iidx EXCEPT ![g] = @ + 1 ]
            /\ UNCHANGED << data_lock, ipc, cpc, irec >>
    /\ UNCHANGED << running, stop_called, delivered, last, prevVars, recorderVars,
                    printerVars, proc, now, mutations >>

\* One assignment of the critical section.  If it raises, the lock is released
\* by `async with` and the stream's handler runs.
WriteField(g) ==
    /\ ipc[g] = "write"
    /\ iidx[g] <= NAssign(g)
    /\ IF AssignRaises(g, iidx[g], irec[g])
       THEN /\ data_lock' = "free"
            /\ OnStreamError(g)
            /\ irec' = [ irec EXCEPT ![g] = NoRecord ]
            /\ iidx' = [ iidx EXCEPT ![g] = 0 ]
            /\ heap' = heap
       ELSE /\ heap' = SetField(heap, g, iidx[g], irec[g])
            /\ iidx' = [ iidx EXCEPT ![g] = @ + 1 ]
            /\ UNCHANGED << data_lock, ipc, cpc, irec >>
    /\ UNCHANGED << running, stop_called, delivered, last, prevVars, recorderVars,
                    printerVars, proc, now, mutations >>

\* The critical section ends; the stream awaits its next record.
Release(g) ==
    /\ ipc[g] = "write"
    /\ iidx[g] > NAssign(g)
    /\ data_lock' = "free"
    /\ ipc' = [ ipc EXCEPT ![g] = "wait" ]
    /\ irec' = [ irec EXCEPT ![g] = NoRecord ]
    /\ iidx' = [ iidx EXCEPT ![g] = 0 ]
    /\ UNCHANGED << heap, running, stop_called, cpc, delivered, last,
                    prevVars, recorderVars, printerVars, proc, now, mutations >>

StreamOver(g) == ipc[g] \in { "stopped", "ended", "errored" }

\* asyncio.gather(...) of the six streams returns.
GatherReturns ==
    /\ proc = "running"
    /\ cpc = "gather"
    /\ \A g \in Channels : StreamOver(g)
    /\ cpc' = "done"
    /\ UNCHANGED << heap, data_lock, running, stop_called, ipc, irec, iidx,
                    delivered, last, prevVars, recorderVars, printerVars, proc, now,
                    mutations >>

\* `if not self._running: break`, in a stream of the earlier call: the flag is
\* the collector's one attribute, whichever call started the stream.
PrevStreamBreaks == StreamBreaks

\* start_telemetry_streams is called again after stop(), while the streams of
\* the earlier call are parked at their `async for` (or are over): the earlier
\* call stays in its gather(), and this call runs up to its first await.  The
\* model follows the streams of one earlier call: a further start waits until
\* those are over.
StartTelemetryStreamsAgain ==
    /\ proc = "running"
    /\ LoopIdle
    /\ cpc \in { "gather", "done" }
    /\ stop_called /\ ~running
    /\ \A g \in Channels : ipc[g] \in { "wait", "stopped", "ended", "errored" }
    /\ \A g \in Channels : opc[g] \in { "none", "stopped", "errored" }
    /\ running' = TRUE
    /\ cpc' = "config"
    /\ opc' = [ g \in Channels |->
                  IF ipc[g] = "wait" THEN "wait"
                  ELSE IF ipc[g] = "errored" THEN "errored" ELSE "stopped" ]
    /\ ipc' = [ g \in Channels |-> "idle" ]
    /\ UNCHANGED << heap, data_lock, stop_called, irec, iidx, delivered, last,
                    orec, oidx, recorderVars, printerVars, proc, now, mutations >>

\* The source of channel g yields rec to the stream of the earlier call.
PrevDeliver(g, rec) ==
    /\ proc = "running"
    /\ opc[g] = "wait"
    /\ IF PrevStreamBreaks
       THEN /\ opc' = [ opc EXCEPT ![g] = "stopped" ]
            /\ orec' = orec
            /\ delivered' = delivered
       ELSE /\ delivered < MaxRecords
            /\ delivered' = delivered + 1
            /\ opc' = [ opc EXCEPT ![g] = "acq" ]
            /\ orec' = [ orec EXCEPT ![g] = rec ]
    /\ UNCHANGED << heap, data_lock, running, stop_called, cpc, ipc, irec, iidx,
                    last, oidx, recorderVars, printerVars, proc, now, mutations >>

\* `async with self._data_lock:` of a stream of the earlier call.
PrevAcquire(g) ==
    /\ opc[g] = "acq"
    /\ StreamMayEnter(g)
    /\ data_lock' = "earlier"
    /\ opc' = [ opc EXCEPT ![g] = "write" ]
    /\ oidx' = [ oidx EXCEPT ![g] = 1 ]
    /\ UNCHANGED << heap, running, stop_called, cpc, ipc, irec, iidx, delivered,
                    last, orec, recorderVars, printerVars, proc, now, mutations >>

\* One assignment of the critical section of a stream of the earlier call.
PrevWriteField(g) ==
    /\ opc[g] = "write"
    /\ oidx[g] <= NAssign(g)
    /\ IF AssignRaises(g, oidx[g], orec[g])
       THEN /\ data_lock' = "free"
            /\ opc' = [ opc EXCEPT ![g] = "errored" ]
            /\ orec' = [ orec EXCEPT ![g] = NoRecord ]
            /\ oidx' = [ oidx EXCEPT ![g] = 0 ]
            /\ heap' = heap
       ELSE /\ heap' = SetField(heap, g, oidx[g], orec[g])
            /\ oidx' = [ oidx EXCEPT ![g] = @ + 1 ]
            /\ UNCHANGED << data_lock, opc, orec >>
    /\ UNCHANGED << running, stop_called, cpc, ipc, irec, iidx, delivered, last,
                    recorderVars, printerVars, proc, now, mutations >>

\* The critical section of a stream of the earlier call ends.
PrevRelease(g) ==
    /\ opc[g] = "write"
    /\ oidx[g] > NAssign(g)
    /\ data_lock' = "free"
    /\ opc' = [ opc EXCEPT ![g] = "wait" ]
    /\ orec' = [ orec EXCEPT ![g] = NoRecord ]
    /\ oidx' = [ oidx EXCEPT ![g] = 0 ]
    /\ UNCHANGED << heap, running, stop_called, cpc, ipc, irec, iidx, delivered,
                    last, recorderVars, printerVars, proc, now, mutations >>

\* ---------------------------------------------------------- get_latest_data
\* get_latest_data without its `async with`: it never waits for the lock.
ReaderMayEnter_NoLock == TRUE

\* `async with self._data_lock:` of get_latest_data.
ReaderMayEnter == data_lock = "free"

\* get_latest_data that stamps self._current_data and returns it, with no copy.
GetLatestData_InPlace(h, dst) ==
    [ heap |-> [ h EXCEPT ![Canon]["timestamp_ms"] = now * 1000 ],
      ref  |-> Canon ]

\* A plain copy, dataclasses.replace(self._current_data): the timestamp of the
\* snapshot is kept.
GetLatestData_KeepsStamp(h, dst) ==
    [ heap |-> [ o \in DOMAIN h \cup {dst} |-> IF o = dst THEN h[Canon] ELSE h[o] ],
      ref  |-> dst ]

\* dataclasses.replace(self._current_data, timestamp_ms=time.time() * 1000):
\* a new object dst, and the reference returned.
GetLatestData(h, dst) ==
    [ heap |-> [ o \in DOMAIN h \cup {dst} |->
                   IF o = dst
                   THEN [ h[Canon] EXCEPT !["timestamp_ms"] = now * 1000 ]
                   ELSE h[o] ],
      ref  |-> dst ]

\* -------------------------------------------------------- FcTelemetryLogger
\* start_logging, up to `try:`.
BeginLogging ==
    /\ proc = "running"
    /\ runs' = runs + 1
    /\ log_running' = TRUE
    /\ ticks' = 0
    /\ rowfaults' = 0
    /\ rpc' = "open"
    /\ UNCHANGED << heap, data_lock, collectorVars, stop_logging_called,
                    file_handle, files, sink, rec_data, printerVars, proc, now,
                    mutations >>

\* The first call of start_logging on the logger (the one _async_main makes).
StartLogging ==
    /\ rpc = "init"
    /\ BeginLogging

\* A later call of start_logging on the same logger, after the previous call
\* returned.
StartLoggingAgain ==
    /\ rpc = "done"
    /\ runs < MaxRuns
    /\ BeginLogging

\* stop_logging()
StopLogging ==
    /\ proc = "running"
    /\ LoopIdle
    /\ log_running' = FALSE
    /\ stop_logging_called' = TRUE
    /\ UNCHANGED << heap, data_lock, collectorVars, file_handle, files, sink, rpc,
                    rec_data, runs, ticks, rowfaults, printerVars, proc, now,
                    mutations >>

\* start_logging with no outer handler: the error leaves the coroutine.
OnSinkError_Raises == rpc' = "raised"

\* The outer `except Exception: logging.exception("Failed to open log file")`;
\* the finally block follows.
OnSinkError == rpc' = "finally"

\* open(self._filename, "a", buffering=1): what the file held is kept.
OpenSink_Append(ok) ==
    /\ rpc = "open"
    /\ IF ok
       THEN /\ files' = Append(files, [ open |-> TRUE, closes |-> 0, run |-> runs ])
            /\ file_handle' = Len(files) + 1
            /\ sink' = sink
            /\ rpc' = "header"
       ELSE /\ OnSinkError
            /\ UNCHANGED << files, file_handle, sink >>
    /\ UNCHANGED << heap, data_lock, collectorVars, log_running, stop_logging_called, rec_data, runs,
                    ticks, rowfaults, printerVars, proc, now, mutations >>

\* self._file_handle = open(self._filename, "w", buffering=1): a new handle on
\* the truncated file, or an error caught by the outer handler.
OpenSink(ok) ==
    /\ rpc = "open"
    /\ IF ok
       THEN /\ files' = Append(files, [ open |-> TRUE, closes |-> 0, run |-> runs ])
            /\ file_handle' = Len(files) + 1
            /\ sink' = << >>
            /\ rpc' = "header"
       ELSE /\ OnSinkError
            /\ UNCHANGED << files, file_handle, sink >>
    /\ UNCHANGED << heap, data_lock, collectorVars, log_running, stop_logging_called, rec_data, runs,
                    ticks, rowfaults, printerVars, proc, now, mutations >>

\* self._file_handle.write(FcTelemetryData.csv_header() + "\n")
WriteHeader(ok) ==
    /\ rpc = "header"
    /\ IF ok
       THEN /\ sink' = Append(sink, csv_header)
            /\ rpc' = "loop"
       ELSE /\ OnSinkError
            /\ sink' = sink
    /\ UNCHANGED << heap, data_lock, collectorVars, log_running, stop_logging_called, file_handle, files,
                    rec_data, runs, ticks, rowfaults, printerVars, proc, now,
                    mutations >>

\* `while True:` in place of the test of the flag.
LoopContinues_Forever == TRUE

\* `while self._running:`
LoopContinues == log_running

LoopTest ==
    /\ rpc = "loop"
    /\ IF LoopContinues
       THEN /\ rpc' = "read"
            /\ ticks' = ticks + 1
       ELSE /\ rpc' = "finally"
            /\ ticks' = ticks
    /\ UNCHANGED << heap, data_lock, collectorVars, log_running, stop_logging_called, file_handle, files,
                    sink, rec_data, runs, rowfaults, printerVars, proc, now,
                    mutations >>

\* A loop with no inner handler: the failure of a row reaches the outer
\* handler, and the run is over.
OnRowError_Fatal ==
    /\ rpc' = "finally"
    /\ rowfaults' = rowfaults + 1

\* The inner `except Exception:` of the loop: log, then sleep one interval.
OnRowError ==
    /\ rpc' = "esleep"
    /\ rowfaults' = rowfaults + 1

\* data = await self._collector.get_latest_data()
RecorderRead(ok) ==
    /\ rpc = "read"
    /\ IF ok
       THEN /\ ReaderMayEnter
            /\ heap' = GetLatestData(heap, RecCopy).heap
            /\ rec_data' = GetLatestData(heap, RecCopy).ref
            /\ rpc' = "write"
            /\ rowfaults' = rowfaults
       ELSE /\ OnRowError
            /\ UNCHANGED << heap, rec_data >>
    /\ UNCHANGED << data_lock, collectorVars, log_running, stop_logging_called, file_handle, files, sink,
                    runs, ticks, printerVars, proc, now, mutations >>

\* self._file_handle.write(data.to_csv_row() + "\n"), then the sleep begins;
\* or serializing or appending raises.
WriteRow(ok) ==
    /\ rpc = "write"
    /\ IF ok
       THEN /\ sink' = Append(sink, to_csv_row(heap[rec_data]))
            /\ rpc' = "sleep"
            /\ rowfaults' = rowfaults
       ELSE /\ OnRowError
            /\ sink' = sink
    /\ UNCHANGED << heap, data_lock, collectorVars, log_running, stop_logging_called, file_handle, files,
                    rec_data, runs, ticks, printerVars, proc, now, mutations >>

\* await asyncio.sleep(self._log_interval) is over (in the body or the handler).
RecorderWakes ==
    /\ rpc \in { "sleep", "esleep" }
    /\ ticks < MaxTicks \/ ~log_running
    /\ rpc' = "loop"
    /\ UNCHANGED << heap, data_lock, collectorVars, log_running, stop_logging_called, file_handle, files,
                    sink, rec_data, runs, ticks, rowfaults, printerVars, proc, now,
                    mutations >>

\* `if self._file_handle:` of the finally block.
FinallyCloses == file_handle # 0

\* The objects of h other than o.
Drop(h, o) == [ x \in DOMAIN h \ {o} |-> h[x] ]

\* finally: close the handle, if any; start_logging returns, and its local
\* `data` goes with its frame.
Finally ==
    /\ rpc = "finally"
    /\ IF FinallyCloses
       THEN files' = [ files EXCEPT ![file_handle].open = FALSE,
                                    ![file_handle].closes = @ + 1 ]
       ELSE files' = files
    /\ rpc' = "done"
    /\ rec_data' = NoRef
    /\ heap' = IF rec_data = RecCopy THEN Drop(heap, RecCopy) ELSE heap
    /\ UNCHANGED << data_lock, collectorVars, log_running, stop_logging_called, file_handle, sink, runs,
                    ticks, rowfaults, printerVars, proc, now, mutations >>

\* ------------------------------------------------------ print_telemetry_data
PrinterStarts ==
    /\ proc = "running"
    /\ ppc = "init"
    /\ ppc' = "read"
    /\ UNCHANGED << heap, data_lock, collectorVars, recorderVars, print_data, proc,
                    now, mutations >>

\* data = await collector.get_latest_data(), the logging.debug calls, then the
\* sleep begins; or one of them raises and the handler logs and sleeps.
PrinterRead(ok) ==
    /\ ppc = "read"
    /\ IF ok
       THEN /\ ReaderMayEnter
            /\ heap' = GetLatestData(heap, PrintCopy).heap
            /\ print_data' = GetLatestData(heap, PrintCopy).ref
       ELSE UNCHANGED << heap, print_data >>
    /\ ppc' = "sleep"
    /\ UNCHANGED << data_lock, collectorVars, recorderVars, proc, now, mutations >>

\* `while True:` after the sleep.
PrinterWakes ==
    /\ proc = "running"
    /\ ppc = "sleep"
    /\ ppc' = "read"
    /\ UNCHANGED << heap, data_lock, collectorVars, recorderVars, print_data, proc,
                    now, mutations >>

\* -------------------------------------------------------------- environment
\* time.time() advances.
Tick ==
    /\ now < ConstructionTime + MaxTime
    /\ now' = now + 1
    /\ UNCHANGED << heap, data_lock, collectorVars, recorderVars, printerVars, proc,
                    mutations >>

\* The holder of a returned copy assigns to one of its fields.
MutFields == { "timestamp_ms", "latitude_deg" }

MutateCopy(ref, f) ==
    /\ ref # NoRef
    /\ mutations < MaxMutations
    /\ mutations' = mutations + 1
    /\ heap' = [ heap EXCEPT ![ref][f] = @ + 1 ]
    /\ UNCHANGED << data_lock, collectorVars, recorderVars, printerVars, proc, now >>

\* asyncio.gather(*tasks) of _async_main re-raises what a task raised;
\* asyncio.run cancels the tasks left: each gets CancelledError at its await,
\* which no `except Exception` catches, and start_logging runs its finally.
MainRaises ==
    /\ proc = "running"
    /\ cpc = "raised" \/ rpc = "raised" \/ ppc = "raised"
    /\ LoopIdle
    /\ proc' = "crashed"
    /\ ipc' = [ g \in Channels |-> IF ipc[g] = "wait" THEN "cancelled" ELSE ipc[g] ]
    /\ rpc' = IF rpc \in { "sleep", "esleep" } THEN "finally" ELSE rpc
    /\ ppc' = IF ppc = "sleep" THEN "cancelled" ELSE ppc
    /\ opc' = [ g \in Channels |-> IF opc[g] = "wait" THEN "cancelled" ELSE opc[g] ]
    /\ UNCHANGED << heap, data_lock, running, stop_called, cpc, irec, iidx,
                    delivered, last, orec, oidx, log_running, stop_logging_called,
                    file_handle, files, sink, rec_data, runs, ticks, rowfaults,
                    print_data, now, mutations >>

\* ----------------------------------------------------------- specifications
\* start_telemetry_streams, up to the start of the six streams.
StartSteps ==
    \/ StartTelemetryStreams
    \/ \E ok \in BOOLEAN : ConfigureStreamRates(ok)
    \/ GatherStreams

\* The streams, when the sources of the channels in G deliver records.
IngestSteps(G) ==
    \/ \E g \in G : \E rec \in Records(g) : Deliver(g, rec)
    \/ \E g \in Channels : Acquire(g)
    \/ \E g \in Channels : WriteField(g)
    \/ \E g \in Channels : Release(g)

\* The sources of the channels in F can raise or end.
FaultSteps(F) ==
    \/ \E g \in F : SourceRaises(g)
    \/ \E g \in F : SourceEnds(g)

StopSteps ==
    \/ Stop
    \/ GatherReturns

\* One call of start_logging.
RecorderSteps ==
    \/ StartLogging
    \/ \E ok \in BOOLEAN : OpenSink(ok)
    \/ \E ok \in BOOLEAN : WriteHeader(ok)
    \/ LoopTest
    \/ \E ok \in BOOLEAN : RecorderRead(ok)
    \/ \E ok \in BOOLEAN : WriteRow(ok)
    \/ RecorderWakes
    \/ Finally

PrinterSteps ==
    \/ PrinterStarts
    \/ \E ok \in BOOLEAN : PrinterRead(ok)
    \/ PrinterWakes

CopySteps == \E f \in MutFields : MutateCopy(print_data, f)

\* The store: the six ingestors and a periodic reader.
NextStore == StartSteps \/ IngestSteps(Channels) \/ PrinterSteps

SpecStore == Init /\ [][NextStore]_vars

\* Stopping the collector while two of the channels deliver records; every
\* source but the position's can raise or end.
NextStop ==
    \/ StartSteps
    \/ IngestSteps({"position", "velocity"})
    \/ FaultSteps(Channels \ {"position"})
    \/ StopSteps

SpecStop == Init /\ [][NextStop]_vars

\* A logger that is started again and again, beside the printer.
NextRecorder ==
    \/ StartSteps
    \/ RecorderSteps
    \/ StopLogging
    \/ StartLoggingAgain
    \/ PrinterSteps
    \/ MainRaises

SpecRecorder == Init /\ [][NextRecorder]_vars

\* Returned copies and their holders.
NextCopy ==
    \/ StartSteps
    \/ IngestSteps({"position"})
    \/ RecorderSteps
    \/ PrinterSteps
    \/ CopySteps

SpecCopy == Init /\ [][NextCopy]_vars

\* Reads by the printer while the position stream writes and the clock
\* advances.
NextClock ==
    \/ StartSteps
    \/ IngestSteps({"position"})
    \/ PrinterSteps
    \/ Tick

SpecClock == Init /\ [][NextClock]_vars

\* The snapshot after the streams have written: each group holds the defaults
\* (v[g] = 0) or the values of a record, taken with either sign.
WrittenSnapshot(v, sgn) ==
    [ f \in Fields |->
        IF f = "timestamp_ms" THEN ConstructionTime
        ELSE LET g == CHOOSE h \in Channels : f \in GroupFields(h)
                 k == CHOOSE j \in 1..NAssign(g) : Assign(g)[j][1] = f
             IN  IF v[g] = 0 THEN FieldDefault(f)
                 ELSE IF g = "actuator"
                 THEN sgn * AssignValue(g, k, ActuatorRecord(servo_start_idx + 3, v[g], NoIndex))
                 ELSE sgn * AssignValue(g, k, ScalarRecord(g, v[g])) ]

\* The collector is running, its streams have written and wait for their next
\* record; the logger has not been started.
InitCsv ==
    /\ \E W \in SUBSET Channels : \E w \in 1..MaxVal : \E sgn \in { 1, -1 } :
          heap = [ o \in {Canon} |->
                     WrittenSnapshot([ g \in Channels |-> IF g \in W THEN w ELSE 0 ], sgn) ]
    /\ data_lock = "free"
    /\ running = TRUE
    /\ stop_called = FALSE
    /\ cpc = "gather"
    /\ ipc = [ g \in Channels |-> "wait" ]
    /\ irec = [ g \in Channels |-> NoRecord ]
    /\ iidx = [ g \in Channels |-> 0 ]
    /\ delivered = MaxRecords
    /\ last = [ g \in Channels |-> NoRecord ]
    /\ opc = [ g \in Channels |-> "none" ]
    /\ orec = [ g \in Channels |-> NoRecord ]
    /\ oidx = [ g \in Channels |-> 0 ]
    /\ log_running = FALSE
    /\ stop_logging_called = FALSE
    /\ file_handle = 0
    /\ files = << >>
    /\ sink = << >>
    /\ rpc = "init"
    /\ rec_data = NoRef
    /\ runs = 0
    /\ ticks = 0
    /\ rowfaults = 0
    /\ ppc = "init"
    /\ print_data = NoRef
    /\ proc = "running"
    /\ now = ConstructionTime
    /\ mutations = 0

\* One call of start_logging on a snapshot the streams have written.
NextCsv == RecorderSteps

SpecCsv == InitCsv /\ [][NextCsv]_vars

\* The tasks of _async_main, when the velocity source can fail.
NextSystem ==
    \/ StartSteps
    \/ IngestSteps({"position"})
    \/ FaultSteps({"velocity"})
    \/ RecorderSteps
    \/ PrinterSteps
    \/ MainRaises

SpecSystem == Init /\ [][NextSystem]_vars

\* The tasks of _async_main, stopped by stop() and stop_logging().
NextShutdown ==
    \/ StartSteps
    \/ IngestSteps({"position"})
    \/ Stop
    \/ RecorderSteps
    \/ StopLogging
    \/ PrinterSteps

SpecShutdown == Init /\ [][NextShutdown]_vars

\* The streams of the earlier call, when the sources of the channels in G
\* deliver records.
PrevSteps(G) ==
    \/ \E g \in G : \E rec \in Records(g) : PrevDeliver(g, rec)
    \/ \E g \in Channels : PrevAcquire(g)
    \/ \E g \in Channels : PrevWriteField(g)
    \/ \E g \in Channels : PrevRelease(g)

\* A collector that is stopped and started again, while the position and
\* actuator sources deliver records.
NextRestart ==
    \/ StartSteps
    \/ Stop
    \/ StartTelemetryStreamsAgain
    \/ IngestSteps({"position", "actuator"})
    \/ PrevSteps({"position", "actuator"})

SpecRestart == Init /\ [][NextRestart]_vars

\* ------------------------------------------------------------------ claims
\* get_latest_data runs to its return.
ReadStep == PrinterRead(TRUE) \/ RecorderRead(TRUE)

\* Stream g is between the first and the last assignment of one group write.
MidWrite(g) == ipc[g] = "write" /\ 1 < iidx[g] /\ iidx[g] <= NAssign(g)

\* Group g of snapshot d holds the defaults, or the values of one record.
WholeGroup(d, g) ==
    \/ \A f \in GroupFields(g) : d[f] = FieldDefault(f)
    \/ \E rec \in Records(g) :
         \A k \in 1..NAssign(g) :
            /\ ~AssignRaises(g, k, rec)
            /\ d[Assign(g)[k][1]] = AssignValue(g, k, rec)

Copies == DOMAIN heap \ {Canon}

\* C1.  No torn reads: get_latest_data never runs while a stream is between
\* the first and the last assignment of a group write, and a returned copy
\* shows a group that is not the defaults or one record only when the write of
\* that group was cut short by an exception, never because it was in progress.
C1_NoTornReads ==
    /\ [][ ReadStep => \A g \in Channels : ~MidWrite(g) ]_vars
    /\ [](\A c \in Copies : \A g \in Channels :
            ~WholeGroup(heap[c], g) => ipc[g] = "errored")

\* A reader is at get_latest_data while the imu stream is mid-write.
C1_Witness ==
    /\ ppc = "read"
    /\ MidWrite("imu")
    /\ data_lock = "imu"

\* The field groups of the snapshot, by owner (the data model's table).
OwnGroup(g) ==
    CASE g = "position" ->
           { "latitude_deg", "longitude_deg", "altitude_m_amsl", "altitude_m_rel" }
      [] g = "velocity" ->
           { "velocity_north_mps", "velocity_east_mps", "velocity_down_mps" }
      [] g = "euler" -> { "roll_deg", "pitch_deg", "yaw_deg" }
      [] g = "quaternion" -> { "q_w", "q_x", "q_y", "q_z" }
      [] g = "imu" ->
           { "accel_body_x_m_per_s2", "accel_body_y_m_per_s2",
             "accel_body_z_m_per_s2", "angular_vel_body_x_rad_ps",
             "angular_vel_body_y_rad_ps", "angular_vel_body_z_rad_ps" }
      [] g = "actuator" -> { "motor_out", "servo1_out", "servo2_out", "servo3_out" }

\* A step of stream g: it moves in its loop or in its critical section.
StreamStep(g) == ipc'[g] # ipc[g] \/ iidx'[g] # iidx[g]

\* The streams' assignment targets are the groups of the data model, and no
\* field is in two of them.
GroupsAsSpecified ==
    \A g \in Channels :
       /\ GroupFields(g) = OwnGroup(g)
       /\ \A h \in Channels \ {g} : GroupFields(g) \cap GroupFields(h) = {}

\* C2.  Disjointness: a step of an ingestor changes no field of the snapshot
\* outside its own group and no other object, the fields an ingestor assigns
\* are those of its group, and no field belongs to two groups.
C2_Disjointness ==
    /\ [][ \A g \in Channels : StreamStep(g) =>
             /\ \A f \in Fields \ OwnGroup(g) : heap'[Canon][f] = heap[Canon][f]
             /\ \A c \in Copies : c \in DOMAIN heap' /\ heap'[c] = heap[c] ]_vars
    /\ []GroupsAsSpecified

\* The velocity stream is writing while the position group holds a record and
\* a copy is held by the printer.
C2_Witness ==
    /\ ipc["velocity"] = "write"
    /\ iidx["velocity"] > 1
    /\ heap[Canon]["latitude_deg"] # FieldDefault("latitude_deg")
    /\ print_data # NoRef

\* C3.  Copy independence: get_latest_data returns an object that is neither
\* the canonical snapshot nor the copy another holder has, and changes no
\* object that existed; an assignment to a returned copy changes that copy
\* alone; the canonical timestamp_ms stays what the constructor set.
C3_CopyIndependence ==
    /\ [][ PrinterRead(TRUE) =>
             /\ heap'[Canon] = heap[Canon]
             /\ print_data' \notin { Canon, NoRef, rec_data }
             /\ rec_data # NoRef => heap'[rec_data] = heap[rec_data] ]_vars
    /\ [][ RecorderRead(TRUE) =>
             /\ heap'[Canon] = heap[Canon]
             /\ rec_data' \notin { Canon, NoRef, print_data }
             /\ print_data # NoRef => heap'[print_data] = heap[print_data] ]_vars
    /\ [][ \A f \in MutFields :
             MutateCopy(print_data, f) =>
               /\ heap'[print_data][f] # heap[print_data][f]
               /\ \A o \in DOMAIN heap \ {print_data} : heap'[o] = heap[o] ]_vars
    /\ [](heap[Canon]["timestamp_ms"] = ConstructionTime)

\* The recorder and the printer each hold a copy, the printer's changed by its
\* holder, and the canonical snapshot has been written.
C3_Witness ==
    /\ rec_data # NoRef
    /\ print_data # NoRef
    /\ mutations > 0
    /\ heap[rec_data]["latitude_deg"] # heap[print_data]["latitude_deg"]
    /\ heap[Canon]["latitude_deg"] # FieldDefault("latitude_deg")

\* Some stream was ended by an error.
SomeErrored == \E g \in Channels : ipc[g] = "errored"

\* The canonical snapshot holds record rec in group g.
Applied(g, rec) ==
    \A k \in 1..NAssign(g) : heap[Canon][Assign(g)[k][1]] = AssignValue(g, k, rec)

\* C4.  Fault isolation: an error of one source ends that stream only.  The
\* step changes nothing but that stream's position; start_telemetry_streams
\* never raises and the process is never torn down because of it; afterwards
\* every record delivered to another stream is taken and, at the end of its
\* critical section, is in the snapshot; the recorder and the printer are
\* never cancelled and keep taking their steps.
C4_FaultIsolation ==
    /\ [][ \A g \in Channels : SourceRaises(g) =>
             /\ ipc'[g] = "errored"
             /\ \A h \in Channels \ {g} : ipc'[h] = ipc[h]
             /\ UNCHANGED << heap, data_lock, running, cpc, irec, iidx,
                             prevVars, recorderVars, printerVars, proc >> ]_vars
    /\ [](SomeErrored =>
             /\ cpc \in { "gather", "done" }
             /\ proc = "running"
             /\ ppc \notin { "cancelled", "raised" }
             /\ rpc # "raised")
    /\ [][ SomeErrored =>
             \A h \in Channels :
                /\ \A rec \in Records(h) :
                      Deliver(h, rec) => ipc'[h] = "acq" /\ irec'[h] = rec
                /\ Release(h) => Applied(h, irec[h]) ]_vars
    /\ [][ SomeErrored /\ rpc = "sleep" /\ ticks < MaxTicks =>
             ENABLED RecorderWakes ]_vars
    /\ [][ SomeErrored /\ ppc = "sleep" => ENABLED PrinterWakes ]_vars

\* The velocity source has raised; afterwards a position record was delivered
\* and written in full, while the recorder and the printer are in their loops.
C4_Witness ==
    /\ ipc["velocity"] = "errored"
    /\ ipc["position"] = "write"
    /\ iidx["position"] > NAssign("position")
    /\ delivered = 1
    /\ Applied("position", irec["position"])
    /\ rpc = "sleep"
    /\ ppc = "sleep"
    /\ Len(sink) = 2

\* A line of the sink that is a data row: it begins with a number.
IsDataRow(line) ==
    /\ Len(line) > 0
    /\ line[1] \in { DigitChars[i] : i \in DOMAIN DigitChars } \cup { "-" }

\* The data rows of the sink.
Rows == Cardinality({ i \in DOMAIN sink : IsDataRow(sink[i]) })

\* The current call of start_logging opened its sink.
SinkOpened == file_handle # 0 /\ files[file_handle].run = runs

\* An iteration of the loop has begun and has neither written nor failed yet.
InIteration == rpc \in { "read", "write" }

\* C5.  Recorder resilience: a failure of the read or of the row write adds
\* nothing to the sink and takes the recorder to the sleep of its handler, from
\* which the loop goes on; a row that is written adds exactly one row; and
\* whenever the recorder is between iterations, after T iterations of which k
\* failed, the sink holds the header and exactly T - k data rows.
C5_RecorderResilience ==
    /\ [][ RecorderRead(FALSE) \/ WriteRow(FALSE) =>
             /\ sink' = sink
             /\ rowfaults' = rowfaults + 1
             /\ rpc' = "esleep"
             /\ log_running' = log_running
             /\ files' = files ]_vars
    /\ [][ WriteRow(TRUE) =>
             /\ Len(sink') = Len(sink) + 1
             /\ SubSeq(sink', 1, Len(sink)) = sink
             /\ IsDataRow(sink'[Len(sink')])
             /\ rowfaults' = rowfaults ]_vars
    /\ [][ rpc = "esleep" => rpc' \in { "esleep", "loop", "finally" } ]_vars
    /\ [][ rpc = "esleep" /\ rpc' = "finally" => proc' = "crashed" ]_vars
    /\ [](SinkOpened /\ rpc \notin { "open", "header" } =>
             /\ Rows = ticks - rowfaults - (IF InIteration THEN 1 ELSE 0)
             /\ ticks > 0 => Len(sink) = Rows + 1 /\ sink[1] = csv_header
             /\ ticks = 0 => sink \in { << >>, << csv_header >> })

\* Two iterations, the first of which failed: the sink holds the header and the
\* one row of the second.
C5_Witness ==
    /\ ticks = 2
    /\ rowfaults = 1
    /\ rpc = "sleep"
    /\ Len(sink) = 2
    /\ sink[1] = csv_header
    /\ IsDataRow(sink[2])

\* C6.  Resource guarantee: over every sequence of start_logging and
\* stop_logging calls and every way a run ends, no handle is closed more than
\* once, the finally block of a run whose open failed closes nothing, and when
\* a run is over every handle that was opened has been closed exactly once.
C6_ResourceGuarantee ==
    /\ [](\A h \in DOMAIN files : files[h].closes <= 1)
    /\ [][ Finally /\ ~SinkOpened => files' = files ]_vars
    /\ [](rpc = "done" => \A h \in DOMAIN files :
                             ~files[h].open /\ files[h].closes = 1)

\* The open of the current call of start_logging failed.
FailedOpen == runs > 0 /\ ~SinkOpened /\ rpc \in { "finally", "done" }

\* C7.  Sink-open fault: a failed open goes to the finally block and changes
\* nothing else, neither the sink nor the collector, the printer or the
\* process; the run then has no iteration of the loop and writes nothing, no
\* handle is open (on a first run the logger holds none at all), start_logging
\* never raises, and the streams and the printer are neither cancelled nor
\* held up.
C7_SinkOpenFault ==
    /\ [][ OpenSink(FALSE) =>
             /\ rpc' = "finally"
             /\ UNCHANGED << sink, files, file_handle, heap, data_lock,
                             collectorVars, printerVars, proc >> ]_vars
    /\ [](FailedOpen =>
             /\ ticks = 0
             /\ rowfaults = 0
             /\ \A h \in DOMAIN files : ~files[h].open
             /\ runs = 1 => file_handle = 0 /\ sink = << >>)
    /\ [][ FailedOpen => sink' = sink /\ rpc' \in { "finally", "done", "open" } ]_vars
    /\ [](rpc # "raised")
    /\ [](FailedOpen /\ cpc # "raised" =>
             /\ proc = "running"
             /\ ppc # "cancelled"
             /\ \A g \in Channels : ipc[g] # "cancelled")
    /\ [][ FailedOpen /\ cpc # "raised" =>
             /\ ppc = "sleep" => ENABLED PrinterWakes
             /\ ipc["position"] = "write" => ENABLED (WriteField("position") \/ Release("position")) ]_vars

\* The first run's open failed and the run is over, while the printer holds a
\* copy it read and the position stream is writing a record.
C7_Witness ==
    /\ FailedOpen
    /\ runs = 1
    /\ rpc = "done"
    /\ ppc = "sleep"
    /\ print_data = PrintCopy
    /\ ipc["position"] = "write"
    /\ heap[Canon]["latitude_deg"] # FieldDefault("latitude_deg")

\* stop() was called while the streams run, and nothing set the flag again.
StopSet == stop_called /\ ~running /\ cpc = "gather"

\* C8.  Cancellation: once stop() has cleared the flag, every task that resumes
\* from its suspension point observes it and stops: a stream that gets its next
\* record breaks, the recorder's loop test after its sleep leaves the loop, and
\* the printer does not start another iteration after its sleep.
C8_Cancellation ==
    /\ [][ StopSet => \A g \in Channels : \A rec \in Records(g) :
                        Deliver(g, rec) => ipc'[g] = "stopped" ]_vars
    /\ [][ StopSet /\ ticks > 0 /\ LoopTest => rpc' = "finally" ]_vars
    /\ [][ StopSet /\ PrinterWakes => ppc' # "read" ]_vars

\* stop_logging() was called during the current call of start_logging.
Stopping == ~log_running /\ rpc \notin { "init", "done" }

\* C9.  Recorder stop: stop_logging() on a running recorder finds it asleep and
\* leaves it there; from then on nothing is appended to the sink, the recorder
\* is never at its read or its row write, it can wake, its next loop test
\* leaves the loop, and the finally block that follows closes the sink, so that
\* no handle is open once the call has returned.
C9_RecorderStop ==
    /\ [][ StopLogging /\ rpc \notin { "init", "done" } =>
             rpc \in { "sleep", "esleep" } /\ rpc' = rpc /\ sink' = sink ]_vars
    /\ [][ Stopping => sink' = sink ]_vars
    /\ [](Stopping => rpc \in { "sleep", "esleep", "loop", "finally" })
    /\ [][ Stopping /\ rpc \in { "sleep", "esleep" } => ENABLED RecorderWakes ]_vars
    /\ [][ Stopping /\ LoopTest => rpc' = "finally" /\ ticks' = ticks ]_vars
    /\ [][ Stopping /\ Finally =>
             /\ rpc' = "done"
             /\ \A h \in DOMAIN files' : ~files'[h].open ]_vars
    /\ [](~log_running /\ rpc = "done" => \A h \in DOMAIN files : ~files[h].open)

\* stop_logging() was called after the first row; the recorder woke, left its
\* loop, and is about to close the sink, which still holds just that row.
C9_Witness ==
    /\ Stopping
    /\ proc = "running"
    /\ rpc = "finally"
    /\ ticks = 1
    /\ Len(sink) = 2
    /\ sink[1] = csv_header
    /\ IsDataRow(sink[2])
    /\ files[file_handle].open

\* stop() was called after start_telemetry_streams set the flag.
StopPending == stop_called /\ ~running /\ cpc # "init"

\* Stream g, waiting for its next record, receives one: it goes on to its
\* critical section or breaks (an error or the end of its source is neither).
Received(g) == ipc[g] = "wait" /\ ipc'[g] \in { "acq", "stopped" }

\* C10.  Ingestor stop: a stream leaves its loop only by observing the cleared
\* flag, by the end of its source or by an error; while the flag is set every
\* record delivered is taken.  After stop() the next record a stream receives
\* ends it, that record is not kept and the snapshot never changes again; a
\* stream that has stopped stays stopped.
C10_IngestorStop ==
    /\ [][ \A g \in Channels :
             ~StreamOver(g) /\ ipc'[g] # ipc[g] =>
                \/ ipc'[g] = "stopped" /\ StopPending
                \/ ipc'[g] = "ended" /\ SourceEnds(g)
                \/ ipc'[g] = "errored"
                \/ ipc'[g] \in { "wait", "acq", "write" } ]_vars
    /\ [][ ~StopPending =>
             \A g \in Channels : Received(g) =>
                ipc'[g] = "acq" /\ irec'[g] \in Records(g) ]_vars
    /\ [][ StopPending =>
             /\ heap' = heap
             /\ \A g \in Channels : Received(g) =>
                   ipc'[g] = "stopped" /\ irec'[g] = NoRecord ]_vars
    /\ [](StopPending => \A g \in Channels : ipc[g] \notin { "acq", "write" })
    /\ [][ \A g \in Channels : ipc[g] = "stopped" => ipc'[g] = "stopped" ]_vars

\* After stop() the velocity stream got a record and stopped; the snapshot
\* still holds the velocity it wrote before, and another stream still waits.
C10_Witness ==
    /\ StopPending
    /\ cpc = "gather"
    /\ ipc["velocity"] = "stopped"
    /\ \E rec \in Records("velocity") :
          Applied("velocity", rec) /\ heap[Canon] # NewTelemetryData(ConstructionTime)
    /\ ipc["imu"] = "wait"

\* Group g of snapshot d holds the values of record rec.
HoldsRecord(d, g, rec) ==
    \A k \in 1..NAssign(g) :
       /\ ~AssignRaises(g, k, rec)
       /\ d[Assign(g)[k][1]] = AssignValue(g, k, rec)

\* Group g of snapshot d holds the dataclass defaults.
HoldsDefaults(d, g) == \A f \in GroupFields(g) : d[f] = FieldDefault(f)

\* What a read must return for group g: the last record its stream received,
\* or the defaults when it received none.
LastValue(d, g) ==
    IF last[g] = NoRecord THEN HoldsDefaults(d, g) ELSE HoldsRecord(d, g, last[g])

\* C11.  Last-value read: the copy a read returns holds, for every group, the
\* values of the last record its stream received, and the defaults (0, and 1
\* for q_w) when it received none.  A stream that has its record in hand and is
\* still waiting to enter its critical section is left out.
C11_LastValueRead ==
    [][ PrinterRead(TRUE) =>
          \A g \in Channels : ipc[g] # "acq" => LastValue(heap'[PrintCopy], g) ]_vars

\* C12.  Silent freeze: once a stream is over, by the cleared flag, the end of
\* its source or an error, no step of any task changes a field of its group;
\* in particular none goes back to its default.
C12_SilentFreeze ==
    [][ \A g \in Channels : StreamOver(g) =>
          \A f \in GroupFields(g) : heap'[Canon][f] = heap[Canon][f] ]_vars

\* The velocity source has ended after one of its records was written, and the
\* position stream has written part of a record since.
C12_Witness ==
    /\ ipc["velocity"] = "ended"
    /\ last["velocity"] # NoRecord
    /\ HoldsRecord(heap[Canon], "velocity", last["velocity"])
    /\ ipc["position"] = "write"
    /\ iidx["position"] = 3

\* The fields other than the timestamp.
DataFields == Fields \ { "timestamp_ms" }

\* Snapshots d and e agree on every field but the timestamp.
SameData(d, e) == \A f \in DataFields : d[f] = e[f]

\* C13.  Read timestamp: every copy returned is stamped with the clock value of
\* that read, whatever the snapshot's own timestamp and whenever its fields
\* were written, and holds the snapshot's data; the snapshot's timestamp stays
\* the construction time.  A read never returns an earlier timestamp than the
\* read before it, and when no update came between the two reads the two
\* copies agree on every other field.
C13_ReadTimestamp ==
    /\ [][ PrinterRead(TRUE) =>
             /\ heap'[PrintCopy]["timestamp_ms"] = now * 1000
             /\ SameData(heap'[PrintCopy], heap[Canon]) ]_vars
    /\ [](heap[Canon]["timestamp_ms"] = ConstructionTime)
    /\ [][ PrinterRead(TRUE) /\ print_data = PrintCopy =>
             /\ heap[PrintCopy]["timestamp_ms"] <= heap'[PrintCopy]["timestamp_ms"]
             /\ SameData(heap[PrintCopy], heap[Canon]) =>
                   SameData(heap[PrintCopy], heap'[PrintCopy]) ]_vars

\* A position record was written and read; the clock advanced and the printer
\* is at its next read, with no update in between.
C13_Witness ==
    /\ ppc = "read"
    /\ print_data = PrintCopy
    /\ heap[PrintCopy]["timestamp_ms"] < now * 1000
    /\ SameData(heap[PrintCopy], heap[Canon])
    /\ ~HoldsDefaults(heap[PrintCopy], "position")
    /\ data_lock = "free"

\* line.split(","): the comma-separated values of a line.
RECURSIVE SplitLine(_)
SplitLine(line) ==
    IF \A i \in DOMAIN line : line[i] # ","
    THEN << line >>
    ELSE LET i == CHOOSE j \in DOMAIN line :
                    line[j] = "," /\ \A m \in 1..(j - 1) : line[m] # ","
         IN  << SubSeq(line, 1, i - 1) >> \o SplitLine(SubSeq(line, i + 1, Len(line)))

\* The row of snapshot d splits into one value for each name of the header,
\* the i-th being the formatted value of the i-th field.
RowMatchesHeader(d) ==
    LET values == SplitLine(to_csv_row(d))
        names == SplitLine(csv_header)
    IN  /\ Len(values) = Len(names)
        /\ \A i \in 1..Len(FieldNames) :
              /\ values[i] = FormatField(FieldNames[i], d[FieldNames[i]])
              /\ names[i] = << FieldNames[i] >>

\* C14.  Header/row arity: the row of every snapshot splits at its commas into
\* as many values as the header has names, the i-th value being the i-th
\* field's formatted value and the i-th name the i-th field's name; every row
\* written to the sink is such a row, and every line of the sink has the
\* header's count.
C14_HeaderRowArity ==
    /\ [](\A o \in DOMAIN heap : RowMatchesHeader(heap[o]))
    /\ [][ WriteRow(TRUE) => sink'[Len(sink')] = to_csv_row(heap[rec_data]) ]_vars
    /\ [](\A n \in DOMAIN sink : Len(SplitLine(sink[n])) = Len(SplitLine(csv_header)))

\* The sink holds the header and two rows, of a snapshot with negative values
\* and a timestamp of four digits.
C14_Witness ==
    /\ Len(sink) = 3
    /\ sink[1] = csv_header
    /\ IsDataRow(sink[2])
    /\ heap[Canon]["longitude_deg"] < 0
    /\ heap[Canon]["servo3_out"] < 0
    /\ heap[rec_data]["timestamp_ms"] >= 1000

\* The names on the header line of the sink.
HeaderNames == SplitLine(sink[1])

\* The header line lists the fields in declaration order: the timestamp, then
\* the position, velocity, Euler, quaternion, inertial and actuator fields.
HeaderInDeclarationOrder ==
    /\ \A i \in 1..Len(FieldNames) : HeaderNames[i] = << FieldNames[i] >>
    /\ HeaderNames[1] = << "timestamp_ms" >>
    /\ { HeaderNames[i][1] : i \in 2..5 } = GroupFields("position")
    /\ { HeaderNames[i][1] : i \in 6..8 } = GroupFields("velocity")
    /\ { HeaderNames[i][1] : i \in 9..11 } = GroupFields("euler")
    /\ { HeaderNames[i][1] : i \in 12..15 } = GroupFields("quaternion")
    /\ { HeaderNames[i][1] : i \in 16..21 } = GroupFields("imu")
    /\ { HeaderNames[i][1] : i \in 22..25 } = GroupFields("actuator")

\* C15.  The header line of the sink lists the snapshot fields in declaration
\* order and has 25 entries: the timestamp and the 24 data fields of the six
\* groups.
C15_HeaderFields ==
    [](Len(sink) > 0 =>
         /\ sink[1] = csv_header
         /\ HeaderInDeclarationOrder
         /\ Len(HeaderNames) = 25
         /\ Cardinality(UNION { GroupFields(g) : g \in Channels }) = 24
         /\ Cardinality({ HeaderNames[i] : i \in 1..Len(HeaderNames) }) = 25)

\* C15 as the specification words it: the header line has 23 entries, 22 data
\* fields and the timestamp, in declaration order.
C15_Header23 ==
    [](Len(sink) > 0 =>
         /\ \A i \in DOMAIN HeaderNames : HeaderNames[i] = << FieldNames[i] >>
         /\ Len(HeaderNames) = 23
         /\ Cardinality(UNION { GroupFields(g) : g \in Channels }) = 22)

\* The header has been written and the recorder is in its loop.
C15_Witness ==
    /\ rpc = "loop"
    /\ ticks = 0
    /\ sink = << csv_header >>

\* Element i (0-based) of the array of the actuator record being processed.
Element(i) == irec["actuator"].actuator[i + 1]

\* The number of elements of that array.
ArrayLen == Len(irec["actuator"].actuator)

\* Field f of the snapshot holds the integer part of element i, or 0 when the
\* array has no element i.
MappedInt(f, i) ==
    heap[Canon][f] = IF i < ArrayLen THEN IntOf(Element(i)) ELSE 0

\* Field f of the snapshot holds element i itself, or 0 when the array has no
\* element i.
MappedExact(f, i) ==
    IF i < ArrayLen
    THEN ~Element(i).nan /\ 10 * heap[Canon][f] = Element(i).tenths
    ELSE heap[Canon][f] = 0

\* The actuator stream leaves its critical section by an error.
ActuatorFails == ipc["actuator"] = "write" /\ ipc'["actuator"] = "errored"

\* C16.  Actuator mapping: at the end of the critical section of the actuator
\* stream, for an array of any length, motor_out holds the integer part
\* (truncation toward zero) of element 0 and servo1_out, servo2_out and
\* servo3_out those of elements 8, 9 and 10, each field being 0 when the array
\* has no such element; the stream fails only on an element that is present
\* and is not a number, never because the array is short or empty.
C16_ActuatorMapping ==
    /\ [][ Release("actuator") =>
             /\ MappedInt("motor_out", 0)
             /\ MappedInt("servo1_out", 8)
             /\ MappedInt("servo2_out", 9)
             /\ MappedInt("servo3_out", 10) ]_vars
    /\ [][ ActuatorFails =>
             \E i \in { 0, 8, 9, 10 } : i < ArrayLen /\ Element(i).nan ]_vars

\* C16 as the specification words it: the four fields hold the elements
\* themselves.
C16_ExactElements ==
    /\ [][ Release("actuator") =>
             /\ MappedExact("motor_out", 0)
             /\ MappedExact("servo1_out", 8)
             /\ MappedExact("servo2_out", 9)
             /\ MappedExact("servo3_out", 10) ]_vars
    /\ [][ ActuatorFails => ArrayLen > 10 ]_vars

\* The actuator stream has applied a record whose array has nine elements: the
\* motor and the first servo come from the array, the other two are 0.
C16_Witness ==
    /\ ipc["actuator"] = "write"
    /\ iidx["actuator"] > NAssign("actuator")
    /\ ArrayLen = 9
    /\ heap[Canon]["motor_out"] > 0
    /\ heap[Canon]["servo1_out"] > heap[Canon]["motor_out"]
    /\ heap[Canon]["servo2_out"] = 0
    /\ heap[Canon]["servo3_out"] = 0

\* A task that is waiting for the lock, or about to take it.
WantsLock(g) == ipc[g] = "acq"

\* C17.  The lock is never held across a suspension point: its holder is always
\* a stream inside its critical section, never a task parked at an await, so
\* the lock is free whenever every task is parked; a critical section that
\* ends, by its last statement or by an error, frees the lock.  No deadlock:
\* the holder can always take its next step, each step of the section moves to
\* its next assignment and there are at most NAssign of them, and a free lock
\* can be taken by any stream or reader that wants it.
C17_LockNotHeldAcrossAwait ==
    /\ [](data_lock # "free" =>
             /\ data_lock \in Channels
             /\ ipc[data_lock] = "write"
             /\ iidx[data_lock] \in 1..(NAssign(data_lock) + 1))
    /\ [](\A g \in Channels : IngestorParked(g) => data_lock # g)
    /\ [](LoopIdle => data_lock = "free")
    /\ [][ \A g \in Channels :
             ipc[g] = "write" /\ ipc'[g] # "write" =>
                data_lock' = "free" /\ ipc'[g] \in { "wait", "errored" } ]_vars
    /\ [][ \A g \in Channels :
             ipc[g] = "write" /\ ipc'[g] = "write" /\ iidx'[g] # iidx[g] =>
                iidx'[g] = iidx[g] + 1 ]_vars
    /\ [][ \A g \in Channels :
             ipc[g] = "write" => ENABLED (WriteField(g) \/ Release(g)) ]_vars
    /\ [][ data_lock = "free" =>
             /\ \A g \in Channels : WantsLock(g) => ENABLED Acquire(g)
             /\ ppc = "read" => ENABLED PrinterRead(TRUE) ]_vars

\* The actuator stream left its critical section by an error; since then the
\* printer has read and the position stream has taken the lock.
C17_Witness ==
    /\ ipc["actuator"] = "errored"
    /\ last["actuator"] # NoRecord
    /\ print_data = PrintCopy
    /\ ppc = "sleep"
    /\ data_lock = "position"

\* Group g of snapshot d holds the defaults or the values of one record.
OneRecord(d, g) ==
    HoldsDefaults(d, g) \/ \E rec \in Records(g) : HoldsRecord(d, g, rec)

\* C18.  Group writes are all-or-nothing: a critical section that ends by an
\* error had executed none of its assignments, so the group it owns is as it
\* was; and every copy a read returned holds, for every group, the defaults or
\* the values of one single record.
C18_AllOrNothing ==
    /\ [][ \A g \in Channels :
             ipc[g] = "write" /\ ipc'[g] = "errored" => iidx[g] = 1 ]_vars
    /\ [](\A c \in Copies : \A g \in Channels : OneRecord(heap[c], g))

\* The header lines of the sink.
Headers == Cardinality({ i \in DOMAIN sink : sink[i] = csv_header })

\* C19.  Sink layout: once the current run has opened the sink and written
\* the header, the sink is the header line followed by data rows only.  The
\* header is written to an empty sink, once in a run, and a row is written
\* only below it.
C19_SinkLayout ==
    /\ [](SinkOpened /\ rpc \notin { "open", "header" } /\ Len(sink) > 0 =>
             /\ sink[1] = csv_header
             /\ Headers = 1
             /\ \A i \in 2..Len(sink) : IsDataRow(sink[i]))
    /\ [][ WriteHeader(TRUE) => sink = << >> /\ sink' = << csv_header >> ]_vars
    /\ [][ Headers' > Headers => rpc = "header" /\ rpc' = "loop" /\ ticks = 0 ]_vars
    /\ [][ WriteRow(TRUE) => Len(sink) > 0 /\ sink[1] = csv_header ]_vars

\* The second run of the logger, after a first run that wrote to the same
\* file: the sink holds the header of this run and the row it wrote.
C19_Witness ==
    /\ runs = 2
    /\ Len(files) = 2
    /\ SinkOpened
    /\ rpc = "sleep"
    /\ Len(sink) = 2
    /\ sink[1] = csv_header
    /\ IsDataRow(sink[2])

\* C20.  A stop request is never lost: once stop_logging() has been called, be
\* it before start_logging() began, the recorder's loop test leaves the loop
\* and no data row is written; once stop() has been called, be it before
\* start_telemetry_streams() began, a stream that receives a record breaks and
\* no record is applied to the snapshot.
C20_StopNeverLost ==
    /\ [][ stop_logging_called /\ LoopTest => rpc' = "finally" ]_vars
    /\ [][ stop_logging_called => ~WriteRow(TRUE) ]_vars
    /\ [][ stop_called => \A g \in Channels : Received(g) => ipc'[g] = "stopped" ]_vars
    /\ [][ stop_called => heap'[Canon] = heap[Canon] ]_vars

\* A stream of the earlier call receives a record.
PrevReceived(g) == opc[g] = "wait" /\ opc'[g] \in { "acq", "stopped" }

\* A stream that has passed the test of the flag and is processing a record.
Processing(pc) == pc \in { "acq", "write" }

\* C21.  At most one ingestor loop per channel is ever active: when
\* start_telemetry_streams() is called again after stop(), every stream of the
\* stopped call breaks at the next record it receives, no stream of the stopped
\* call writes a field of the snapshot, and no channel has two streams
\* processing a record, even when the collector was started again before the
\* record arrived.
C21_OneLoopPerChannel ==
    /\ [][ \A g \in Channels : PrevReceived(g) => opc'[g] = "stopped" ]_vars
    /\ [][ (\E g \in Channels : opc[g] = "write") => heap'[Canon] = heap[Canon] ]_vars
    /\ [](\A g \in Channels : ~(Processing(ipc[g]) /\ Processing(opc[g])))
====
